---- MODULE Spec2Model ----
(***************************************************************************)
(* Model of osm_to_lanelet2.py: convert() turns OSM highway centre lines   *)
(* into Lanelet2 boundary ways and lanelet relations.                      *)
(*                                                                         *)
(* The model keeps ids, references, tags, the order of the output          *)
(* document and the order of the phases.  Floating-point geometry is kept  *)
(* symbolically: a perpendicular is the triple of source nodes it is       *)
(* computed from, an output node carries the source node, the side and the *)
(* perpendiculars and half-widths that enter its offset.  Half-widths are  *)
(* in centimetres.  A string the code inspects character by character      *)
(* (maxspeed, speed_limit) is the sequence of the code points of its       *)
(* characters: '30 mph' is <<51, 48, 32, 109, 112, 104>>.                  *)
(* Python positions 0..n-1 are positions 1..n here.                        *)
(***************************************************************************)
EXTENDS Integers, Sequences, FiniteSets, TLC

VARIABLES
    bounds,           \* root.find('bounds') is not None
    osm_nodes,        \* ids of the indexed source nodes
    ways,             \* root.findall('way'): [id, tags, nd]
    pc,               \* position of convert()
    i,                \* index of the running loop
    highway_ways,     \* collected ways
    endpoint_info,    \* insertion-ordered dict: <<[ref, infos], ...>>
    out,              \* children of the output root, in document order
    _nid, _wid, _rid, \* id counters
    shared,           \* osm_ref -> [left, centre, right]
    built,            \* per converted way: the locals of its Phase 5 iteration
                      \* and the part out[first..last] it appended
    lanelets_created

vars == <<bounds, osm_nodes, ways, pc, i, highway_ways, endpoint_info, out,
          _nid, _wid, _rid, shared, built, lanelets_created>>

(* ---------------------------- bounds ----------------------------------- *)
NumNodes == 3        \* source nodes 1..NumNodes are indexed
MaxWays == 3         \* way elements in the input
MaxRefs == 3         \* nd references of one way
MaxTotalRefs == 6    \* nd references of the whole input

(* ------------------------- module constants ---------------------------- *)
HALF_WIDTHS ==
    [hw \in {"motorway", "motorway_link", "trunk", "trunk_link", "primary",
             "primary_link", "secondary", "secondary_link", "tertiary",
             "tertiary_link", "residential", "living_street", "service",
             "unclassified", "road", "footway", "cycleway", "path",
             "pedestrian", "steps"} |->
        CASE hw = "motorway" -> 375
          [] hw \in {"motorway_link", "trunk"} -> 350
          [] hw \in {"trunk_link", "primary"} -> 325
          [] hw \in {"primary_link", "secondary", "tertiary", "unclassified",
                     "road"} -> 300
          [] hw \in {"secondary_link", "tertiary_link", "residential"} -> 275
          [] hw \in {"living_street", "service"} -> 250
          [] hw \in {"footway", "cycleway", "path"} -> 150
          [] hw = "pedestrian" -> 200
          [] OTHER -> 100]

DEFAULT_SPEED ==
    [hw \in {"motorway", "trunk", "primary", "secondary", "tertiary",
             "residential", "service", "living_street", "unclassified",
             "road"} |->
        CASE hw = "motorway" -> <<49, 51, 48>>  \* '130'
          [] hw = "trunk" -> <<49, 48, 48>>     \* '100'
          [] hw = "primary" -> <<57, 48>>       \* '90'
          [] hw = "secondary" -> <<55, 48>>     \* '70'
          [] hw = "residential" -> <<51, 48>>   \* '30'
          [] hw = "service" -> <<50, 48>>       \* '20'
          [] hw = "living_street" -> <<49, 48>> \* '10'
          [] OTHER -> <<53, 48>>]               \* '50'

VEHICLE_ROADS ==
    {"motorway", "motorway_link", "trunk", "trunk_link", "primary",
     "primary_link", "secondary", "secondary_link", "tertiary",
     "tertiary_link", "residential", "living_street", "service",
     "unclassified", "road"}

(* ----------------------------- helpers --------------------------------- *)
\* dict.get(key, default)
Get(d, k, default) == IF k \in DOMAIN d THEN d[k] ELSE default

\* The code points c with chr(c).isdigit(): every character whose Unicode
\* Numeric_Type is Decimal or Digit (Unicode 14.0.0), 788 characters, among
\* them the ASCII digits 48..57, the superscripts U+00B2, U+00B3, U+00B9
\* and the Arabic-Indic digits 1632..1641.
Digits ==
    UNION {48..57, 178..179, {185}, 1632..1641, 1776..1785, 1984..1993,
           2406..2415, 2534..2543, 2662..2671, 2790..2799, 2918..2927,
           3046..3055, 3174..3183, 3302..3311, 3430..3439, 3558..3567,
           3664..3673, 3792..3801, 3872..3881, 4160..4169, 4240..4249,
           4969..4977, 6112..6121, 6160..6169, 6470..6479, 6608..6618,
           6784..6793, 6800..6809, 6992..7001, 7088..7097, 7232..7241,
           7248..7257, {8304}, 8308..8313, 8320..8329, 9312..9320,
           9332..9340, 9352..9360, {9450}, 9461..9469, {9471},
           10102..10110, 10112..10120, 10122..10130, 42528..42537,
           43216..43225, 43264..43273, 43472..43481, 43504..43513,
           43600..43609, 44016..44025, 65296..65305, 66720..66729,
           68160..68163, 68912..68921, 69216..69224, 69714..69722,
           69734..69743, 69872..69881, 69942..69951, 70096..70105,
           70384..70393, 70736..70745, 70864..70873, 71248..71257,
           71360..71369, 71472..71481, 71904..71913, 72016..72025,
           72784..72793, 73040..73049, 73120..73129, 92768..92777,
           92864..92873, 93008..93017, 120782..120831, 123200..123209,
           123632..123641, 125264..125273, 127232..127242, 130032..130041}

\* str.isdigit(): non-empty and every character a digit
isdigit(s) == Len(s) > 0 /\ \A k \in 1..Len(s) : s[k] \in Digits

\* str.rstrip(' mph km/h'): drop trailing characters of the given set,
\* the code points of ' ', 'm', 'p', 'h', 'k', '/'
RECURSIVE rstrip(_)
rstrip(s) ==
    IF Len(s) > 0 /\ s[Len(s)] \in {32, 109, 112, 104, 107, 47}
    THEN rstrip(SubSeq(s, 1, Len(s) - 1))
    ELSE s

Reverse(s) == [k \in 1..Len(s) |-> s[Len(s) + 1 - k]]

\* compute_perps: the left normal at position k is a function of the
\* coordinates of the previous, the current and the next node
compute_perps(refs) ==
    [k \in 1..Len(refs) |->
        <<IF k > 1 THEN refs[k - 1] ELSE 0,
          refs[k],
          IF k < Len(refs) THEN refs[k + 1] ELSE 0>>]

(* ------------------ Phase 3 closures: entity creation ------------------ *)
\* The closures act on the output document and the three counters:
\* st = [out, nid, wid, rid].  Each returns the new st and its return value.
add_node(st, at) ==
    [st  |-> [st EXCEPT !.nid = @ - 1,
                        !.out = Append(@, [kind |-> "node", id |-> st.nid,
                                           visible |-> "true", at |-> at])],
     ret |-> st.nid]

\* add_way that takes its id from the node counter
add_way_node_counter(st, node_ids, tags) ==
    [st  |-> [st EXCEPT !.nid = @ - 1,
                        !.out = Append(@, [kind |-> "way", id |-> st.nid,
                                           visible |-> "true", nd |-> node_ids,
                                           tags |-> tags])],
     ret |-> st.nid]

add_way(st, node_ids, tags) ==
    [st  |-> [st EXCEPT !.wid = @ - 1,
                        !.out = Append(@, [kind |-> "way", id |-> st.wid,
                                           visible |-> "true", nd |-> node_ids,
                                           tags |-> tags])],
     ret |-> st.wid]

add_relation(st, members, tags) ==
    [st  |-> [st EXCEPT !.rid = @ - 1,
                        !.out = Append(@, [kind |-> "relation", id |-> st.rid,
                                           visible |-> "true",
                                           members |-> members, tags |-> tags])],
     ret |-> st.rid]

\* Symbolic position of an output node: source node, side sign and the
\* perpendiculars and half-widths averaged into its offset.
Offset(ref, sign, perps, widths) ==
    [ref |-> ref, sign |-> sign, perps |-> perps, widths |-> widths]

(* ---------------------- collecting highway ways ------------------------ *)
\* refs = [nd.get('ref') for nd in way.findall('nd') if nd.get('ref') in osm_nodes]
resolvable(nd, nodes) == SelectSeq(nd, LAMBDA r : r \in nodes)

\* collect that keeps a way with a single resolvable reference
collect_min_one_ref(hws, way, nodes) ==
    LET tags == way.tags
        hw   == Get(tags, "highway", "")
        refs == resolvable(way.nd, nodes)
    IN  IF hw \notin DOMAIN HALF_WIDTHS THEN hws
        ELSE IF Len(refs) < 1 THEN hws
        ELSE Append(hws,
                    [id      |-> way.id,
                     highway |-> hw,
                     refs    |-> refs,
                     oneway  |-> Get(tags, "oneway", "no") \in {"yes", "1", "true"},
                     speed   |-> Get(tags, "maxspeed", Get(DEFAULT_SPEED, hw, <<53, 48>>)),
                     name    |-> Get(tags, "name", "")])

\* One iteration of the loop over root.findall('way')
collect(hws, way, nodes) ==
    LET tags == way.tags
        hw   == Get(tags, "highway", "")
        refs == resolvable(way.nd, nodes)
    IN  IF hw \notin DOMAIN HALF_WIDTHS THEN hws
        ELSE IF Len(refs) < 2 THEN hws
        ELSE Append(hws,
                    [id      |-> way.id,
                     highway |-> hw,
                     refs    |-> refs,
                     oneway  |-> Get(tags, "oneway", "no") \in {"yes", "1", "true"},
                     speed   |-> Get(tags, "maxspeed", Get(DEFAULT_SPEED, hw, <<53, 48>>)),
                     name    |-> Get(tags, "name", "")])

(* ------------------------------ Phase 1 -------------------------------- *)
phase1(hw) ==
    [id |-> hw.id, highway |-> hw.highway, refs |-> hw.refs,
     oneway |-> hw.oneway, speed |-> hw.speed, name |-> hw.name,
     perps |-> compute_perps(hw.refs), half_w |-> HALF_WIDTHS[hw.highway]]

(* ------------------------------ Phase 2 -------------------------------- *)
\* endpoint_info[ref].append(info) on a defaultdict(list)
ei_append(ei, ref, info) ==
    IF \E k \in 1..Len(ei) : ei[k].ref = ref
    THEN [k \in 1..Len(ei) |->
            IF ei[k].ref = ref
            THEN [ref |-> ref, infos |-> Append(ei[k].infos, info)]
            ELSE ei[k]]
    ELSE Append(ei, [ref |-> ref, infos |-> <<info>>])

\* for pos in (0, len(refs) - 1): endpoint_info[refs[pos]].append(...)
phase2(ei, hw) ==
    LET n  == Len(hw.refs)
        e1 == ei_append(ei, hw.refs[1], [perp |-> hw.perps[1], half_w |-> hw.half_w])
    IN  ei_append(e1, hw.refs[n], [perp |-> hw.perps[n], half_w |-> hw.half_w])

(* ------------------------------ Phase 4 -------------------------------- *)
\* Phase 4 iteration with the junction threshold at `least` contributions
phase4_threshold(st, sh, entry, least) ==
    IF Len(entry.infos) < least THEN [st |-> st, shared |-> sh]
    ELSE
        LET ps == [k \in 1..Len(entry.infos) |-> entry.infos[k].perp]
            ws == [k \in 1..Len(entry.infos) |-> entry.infos[k].half_w]
            l  == add_node(st, Offset(entry.ref, 1, ps, ws))
            c  == add_node(l.st, Offset(entry.ref, 0, <<>>, <<>>))
            r  == add_node(c.st, Offset(entry.ref, -1, ps, ws))
        IN  [st     |-> r.st,
             shared |-> (entry.ref :> [left |-> l.ret, centre |-> c.ret,
                                       right |-> r.ret]) @@ sh]

\* Phase 4 that needs three contributions for a triple
phase4_three_or_more(st, sh, entry) == phase4_threshold(st, sh, entry, 3)

\* One iteration of the loop over endpoint_info.items():
\* returns [st, shared]
phase4(st, sh, entry) ==
    IF Len(entry.infos) < 2 THEN [st |-> st, shared |-> sh]
    ELSE
        LET ps == [k \in 1..Len(entry.infos) |-> entry.infos[k].perp]
            ws == [k \in 1..Len(entry.infos) |-> entry.infos[k].half_w]
            l  == add_node(st, Offset(entry.ref, 1, ps, ws))
            c  == add_node(l.st, Offset(entry.ref, 0, <<>>, <<>>))
            r  == add_node(c.st, Offset(entry.ref, -1, ps, ws))
        IN  [st     |-> r.st,
             shared |-> (entry.ref :> [left |-> l.ret, centre |-> c.ret,
                                       right |-> r.ret]) @@ sh]

(* ------------------------------ Phase 5 -------------------------------- *)
\* boundary_node that reuses the shared triple at the first position only
boundary_node_first_only(st, sh, hw, k, side) ==
    LET osm_ref == hw.refs[k]
    IN  IF k = 1 /\ osm_ref \in DOMAIN sh
        THEN [st |-> st, ret |-> sh[osm_ref][side]]
        ELSE add_node(st, Offset(osm_ref,
                                 IF side = "left" THEN 1
                                 ELSE IF side = "right" THEN -1 ELSE 0,
                                 IF side = "centre" THEN <<>> ELSE <<hw.perps[k]>>,
                                 IF side = "centre" THEN <<>> ELSE <<hw.half_w>>))

\* boundary_node that reuses the shared triple at every position
boundary_node_any_position(st, sh, hw, k, side) ==
    LET osm_ref == hw.refs[k]
    IN  IF osm_ref \in DOMAIN sh
        THEN [st |-> st, ret |-> sh[osm_ref][side]]
        ELSE add_node(st, Offset(osm_ref,
                                 IF side = "left" THEN 1
                                 ELSE IF side = "right" THEN -1 ELSE 0,
                                 IF side = "centre" THEN <<>> ELSE <<hw.perps[k]>>,
                                 IF side = "centre" THEN <<>> ELSE <<hw.half_w>>))

\* boundary_node(i, side) of the way hw: returns [st, ret]
boundary_node(st, sh, hw, k, side) ==
    LET n       == Len(hw.refs)
        osm_ref == hw.refs[k]
    IN  IF (k = 1 \/ k = n) /\ osm_ref \in DOMAIN sh
        THEN [st |-> st, ret |-> sh[osm_ref][side]]
        ELSE IF side = "left"
        THEN add_node(st, Offset(osm_ref, 1, <<hw.perps[k]>>, <<hw.half_w>>))
        ELSE IF side = "right"
        THEN add_node(st, Offset(osm_ref, -1, <<hw.perps[k]>>, <<hw.half_w>>))
        ELSE add_node(st, Offset(osm_ref, 0, <<>>, <<>>))

\* [boundary_node(i, side) for i in range(n)] from position k on:
\* returns [st, ret] with ret the list of ids
RECURSIVE boundary_ids(_, _, _, _, _, _)
boundary_ids(st, sh, hw, side, k, acc) ==
    IF k > Len(hw.refs) THEN [st |-> st, ret |-> acc]
    ELSE LET b == boundary_node(st, sh, hw, k, side)
         IN  boundary_ids(b.st, sh, hw, side, k + 1, Append(acc, b.ret))

solid_tags(hw) ==
    [type |-> "line_thin",
     subtype |-> IF hw.highway \in VEHICLE_ROADS THEN "solid" ELSE "dashed"]

dashed_tags == [type |-> "line_thin", subtype |-> "dashed"]

\* speed = hw['speed']; if not str(speed).rstrip(' mph km/h').isdigit(): ...
speed_limit(hw) ==
    IF ~isdigit(rstrip(hw.speed))
    THEN Get(DEFAULT_SPEED, hw.highway, <<53, 48>>)
    ELSE hw.speed

rel_tags(hw) ==
    LET is_vehicle == hw.highway \in VEHICLE_ROADS
        base == ("type" :> "lanelet")
             @@ ("subtype" :> IF is_vehicle THEN "road" ELSE "walkway")
             @@ ("speed_limit" :> speed_limit(hw))
             @@ ("location" :> "urban")
             @@ ("participant:vehicle" :> IF is_vehicle THEN "yes" ELSE "no")
             @@ ("participant:pedestrian" :> IF ~is_vehicle THEN "yes" ELSE "no")
    IN  IF hw.name # "" THEN base @@ ("name" :> hw.name) ELSE base

\* Oneway branch of one Phase 5 iteration: returns [st, loc]
build_oneway(st, sh, hw) ==
    LET l   == boundary_ids(st, sh, hw, "left", 1, <<>>)
        r   == boundary_ids(l.st, sh, hw, "right", 1, <<>>)
        lw  == add_way(r.st, l.ret, solid_tags(hw))
        rw  == add_way(lw.st, r.ret, solid_tags(hw))
        rel == add_relation(rw.st,
                            <<<<"way", lw.ret, "left">>, <<"way", rw.ret, "right">>>>,
                            rel_tags(hw) @@ ("one_way" :> "yes"))
    IN  [st  |-> rel.st,
         loc |-> [left_ids |-> l.ret, centre_ids |-> <<>>, right_ids |-> r.ret,
                  way_ids |-> <<lw.ret, rw.ret>>, rel_ids |-> <<rel.ret>>,
                  first |-> Len(st.out) + 1, last |-> Len(rel.st.out)]]

\* Two-way branch whose reverse lanelet keeps the forward node order
build_twoway_not_reversed(st, sh, hw) ==
    LET l   == boundary_ids(st, sh, hw, "left", 1, <<>>)
        c   == boundary_ids(l.st, sh, hw, "centre", 1, <<>>)
        r   == boundary_ids(c.st, sh, hw, "right", 1, <<>>)
        fl  == add_way(r.st, l.ret, solid_tags(hw))
        fc  == add_way(fl.st, c.ret, dashed_tags)
        fwd == add_relation(fc.st,
                            <<<<"way", fl.ret, "left">>, <<"way", fc.ret, "right">>>>,
                            rel_tags(hw))
        rc  == add_way(fwd.st, c.ret, dashed_tags)
        rr  == add_way(rc.st, r.ret, solid_tags(hw))
        rev == add_relation(rr.st,
                            <<<<"way", rc.ret, "left">>, <<"way", rr.ret, "right">>>>,
                            rel_tags(hw))
    IN  [st  |-> rev.st,
         loc |-> [left_ids |-> l.ret, centre_ids |-> c.ret, right_ids |-> r.ret,
                  way_ids |-> <<fl.ret, fc.ret, rc.ret, rr.ret>>,
                  rel_ids |-> <<fwd.ret, rev.ret>>,
                  first |-> Len(st.out) + 1, last |-> Len(rev.st.out)]]

\* Two-way branch whose reverse lanelet refers to the forward centre way
\* instead of building a reversed one
build_twoway_shared_centre(st, sh, hw) ==
    LET l   == boundary_ids(st, sh, hw, "left", 1, <<>>)
        c   == boundary_ids(l.st, sh, hw, "centre", 1, <<>>)
        r   == boundary_ids(c.st, sh, hw, "right", 1, <<>>)
        fl  == add_way(r.st, l.ret, solid_tags(hw))
        fc  == add_way(fl.st, c.ret, dashed_tags)
        fwd == add_relation(fc.st,
                            <<<<"way", fl.ret, "left">>, <<"way", fc.ret, "right">>>>,
                            rel_tags(hw))
        rr  == add_way(fwd.st, Reverse(r.ret), solid_tags(hw))
        rev == add_relation(rr.st,
                            <<<<"way", fc.ret, "left">>, <<"way", rr.ret, "right">>>>,
                            rel_tags(hw))
    IN  [st  |-> rev.st,
         loc |-> [left_ids |-> l.ret, centre_ids |-> c.ret, right_ids |-> r.ret,
                  way_ids |-> <<fl.ret, fc.ret, fc.ret, rr.ret>>,
                  rel_ids |-> <<fwd.ret, rev.ret>>,
                  first |-> Len(st.out) + 1, last |-> Len(rev.st.out)]]

\* Two-way branch of one Phase 5 iteration: returns [st, loc]
build_twoway(st, sh, hw) ==
    LET l   == boundary_ids(st, sh, hw, "left", 1, <<>>)
        c   == boundary_ids(l.st, sh, hw, "centre", 1, <<>>)
        r   == boundary_ids(c.st, sh, hw, "right", 1, <<>>)
        fl  == add_way(r.st, l.ret, solid_tags(hw))
        fc  == add_way(fl.st, c.ret, dashed_tags)
        fwd == add_relation(fc.st,
                            <<<<"way", fl.ret, "left">>, <<"way", fc.ret, "right">>>>,
                            rel_tags(hw))
        rc  == add_way(fwd.st, Reverse(c.ret), dashed_tags)
        rr  == add_way(rc.st, Reverse(r.ret), solid_tags(hw))
        rev == add_relation(rr.st,
                            <<<<"way", rc.ret, "left">>, <<"way", rr.ret, "right">>>>,
                            rel_tags(hw))
    IN  [st  |-> rev.st,
         loc |-> [left_ids |-> l.ret, centre_ids |-> c.ret, right_ids |-> r.ret,
                  way_ids |-> <<fl.ret, fc.ret, rc.ret, rr.ret>>,
                  rel_ids |-> <<fwd.ret, rev.ret>>,
                  first |-> Len(st.out) + 1, last |-> Len(rev.st.out)]]

phase5(st, sh, hw) ==
    IF hw.oneway THEN build_oneway(st, sh, hw) ELSE build_twoway(st, sh, hw)

(* ------------------- convert() as a function of its input ------------- *)
RECURSIVE collect_all(_, _, _, _)
collect_all(ws, nodes, k, hws) ==
    IF k > Len(ws) THEN hws
    ELSE collect_all(ws, nodes, k + 1, collect(hws, ws[k], nodes))

RECURSIVE phase2_all(_, _, _)
phase2_all(hws, k, ei) ==
    IF k > Len(hws) THEN ei ELSE phase2_all(hws, k + 1, phase2(ei, hws[k]))

RECURSIVE phase4_all(_, _, _, _)
phase4_all(st, sh, ei, k) ==
    IF k > Len(ei) THEN [st |-> st, shared |-> sh]
    ELSE LET r == phase4(st, sh, ei[k])
         IN  phase4_all(r.st, r.shared, ei, k + 1)

RECURSIVE phase5_all(_, _, _, _)
phase5_all(st, sh, hws, k) ==
    IF k > Len(hws) THEN st
    ELSE phase5_all(phase5(st, sh, hws[k]).st, sh, hws, k + 1)

\* The output document and the junction registry convert() ends with
convert(nodes, ws, b) ==
    LET hws0 == collect_all(ws, nodes, 1, <<>>)
        hws  == [k \in 1..Len(hws0) |-> phase1(hws0[k])]
        ei   == phase2_all(hws, 1, <<>>)
        st0  == [out |-> IF b THEN <<[kind |-> "bounds"]>> ELSE <<>>,
                 nid |-> -1, wid |-> -1, rid |-> -1]
        p4   == phase4_all(st0, <<>>, ei, 1)
    IN  [out |-> phase5_all(p4.st, p4.shared, hws, 1).out, shared |-> p4.shared]

(* --------------------------- the state machine ------------------------- *)
State == [out |-> out, nid |-> _nid, wid |-> _wid, rid |-> _rid]

\* Statement order with Phase 5 placed before Phase 4
after_build_first(p) ==
    CASE p = "collect" -> "phase1"
      [] p = "phase1"  -> "phase2"
      [] p = "phase2"  -> "phase3"
      [] p = "phase3"  -> "phase5"
      [] p = "phase5"  -> "phase4"
      [] p = "phase4"  -> "write"
      [] OTHER         -> "done"

\* The statement order of convert(): the step that follows step p
after(p) ==
    CASE p = "collect" -> "phase1"
      [] p = "phase1"  -> "phase2"
      [] p = "phase2"  -> "phase3"
      [] p = "phase3"  -> "phase4"
      [] p = "phase4"  -> "phase5"
      [] p = "phase5"  -> "write"
      [] OTHER         -> "done"

\* Number of iterations of the loop of step p (1 for straight-line code)
iterations(p, ws, hws, ei) ==
    CASE p = "collect" -> Len(ws)
      [] p \in {"phase1", "phase2", "phase5"} -> Len(hws)
      [] p = "phase4" -> Len(ei)
      [] OTHER -> 1

\* Control reaches step p: a loop without iterations falls through
RECURSIVE enter(_, _, _, _)
enter(p, ws, hws, ei) ==
    IF iterations(p, ws, hws, ei) = 0 THEN enter(after(p), ws, hws, ei) ELSE p

\* End of one iteration of the loop of step pc (primed lists: as left by it)
Advance ==
    IF i < iterations(pc, ways', highway_ways', endpoint_info')
    THEN i' = i + 1 /\ pc' = pc
    ELSE i' = 1 /\ pc' = enter(after(pc), ways', highway_ways', endpoint_info')

\* for way in root.findall('way'): ... (lines 127-142), then line 144
Collect ==
    /\ pc = "collect"
    /\ i <= Len(ways)
    /\ highway_ways' = collect(highway_ways, ways[i], osm_nodes)
    /\ UNCHANGED <<bounds, osm_nodes, ways, endpoint_info, out, _nid, _wid,
                   _rid, shared, built, lanelets_created>>
    /\ Advance

\* for hw in highway_ways: hw['perps'] = ...; hw['half_w'] = ...
Phase1 ==
    /\ pc = "phase1"
    /\ i <= Len(highway_ways)
    /\ highway_ways' = [highway_ways EXCEPT ![i] = phase1(@)]
    /\ UNCHANGED <<bounds, osm_nodes, ways, endpoint_info, out, _nid, _wid,
                   _rid, shared, built, lanelets_created>>
    /\ Advance

\* for hw in highway_ways: for pos in (0, len(refs) - 1): ...
Phase2 ==
    /\ pc = "phase2"
    /\ i <= Len(highway_ways)
    /\ endpoint_info' = phase2(endpoint_info, highway_ways[i])
    /\ UNCHANGED <<bounds, osm_nodes, ways, highway_ways, out, _nid, _wid,
                   _rid, shared, built, lanelets_created>>
    /\ Advance

\* out = ET.Element('osm', ...); bounds echoed; _nid = _wid = _rid = [-1];
\* shared = {}; lanelets_created = 0
Phase3 ==
    /\ pc = "phase3"
    /\ out' = IF bounds THEN <<[kind |-> "bounds"]>> ELSE <<>>
    /\ _nid' = -1 /\ _wid' = -1 /\ _rid' = -1
    /\ shared' = <<>>
    /\ lanelets_created' = 0
    /\ UNCHANGED <<bounds, osm_nodes, ways, highway_ways, endpoint_info, built>>
    /\ Advance

\* for osm_ref, infos in endpoint_info.items(): ...
Phase4 ==
    /\ pc = "phase4"
    /\ i <= Len(endpoint_info)
    /\ LET r == phase4(State, shared, endpoint_info[i])
       IN  /\ out' = r.st.out
           /\ _nid' = r.st.nid
           /\ shared' = r.shared
    /\ UNCHANGED <<bounds, osm_nodes, ways, highway_ways, endpoint_info, _wid,
                   _rid, built, lanelets_created>>
    /\ Advance

\* for hw in highway_ways: boundary nodes, boundary ways, lanelets
Phase5 ==
    /\ pc = "phase5"
    /\ i <= Len(highway_ways)
    /\ LET r == phase5(State, shared, highway_ways[i])
       IN  /\ out' = r.st.out
           /\ _nid' = r.st.nid
           /\ _wid' = r.st.wid
           /\ _rid' = r.st.rid
           /\ built' = Append(built, r.loc)
           /\ lanelets_created' = lanelets_created + Len(r.loc.rel_ids)
    /\ UNCHANGED <<bounds, osm_nodes, ways, highway_ways, endpoint_info, shared>>
    /\ Advance

\* ET.ElementTree(out).write(output_file, ...)
Write ==
    /\ pc = "write"
    /\ UNCHANGED <<bounds, osm_nodes, ways, highway_ways, endpoint_info, out,
                   _nid, _wid, _rid, shared, built, lanelets_created>>
    /\ Advance

Next == Collect \/ Phase1 \/ Phase2 \/ Phase3 \/ Phase4 \/ Phase5 \/ Write

(* ------------------------------ inputs --------------------------------- *)
\* Source-node ids are opaque dictionary keys, so inputs are enumerated up to
\* renaming of the nodes: the first node referenced is 1, and each further
\* new node is the least id not yet used.
Canonical(flat) ==
    \A k \in 1..Len(flat) :
        flat[k] = 1 \/ \E j \in 1..(k - 1) : flat[j] = flat[k] - 1

\* The nd lists of the ways, cut out of the concatenation of all of them:
\* way k holds flat[cut[k] + 1 .. cut[k + 1]], at least `least` references
CutsFrom(total, n, least) ==
    {c \in [1..(n + 1) -> 0..total] :
        /\ c[1] = 0 /\ c[n + 1] = total
        /\ \A k \in 1..n : c[k + 1] - c[k] \in least..MaxRefs}

Cuts(total, n) == CutsFrom(total, n, 2)

RawWay(k, nd, tags) == [id |-> k, nd |-> nd, tags |-> tags]

ResidentialTags(oneway) == ("highway" :> "residential") @@ ("oneway" :> oneway)

InitRest ==
    /\ osm_nodes = 1..NumNodes
    /\ pc = enter("collect", ways, <<>>, <<>>)
    /\ i = 1
    /\ highway_ways = <<>>
    /\ endpoint_info = <<>>
    /\ out = <<>>
    /\ _nid = -1 /\ _wid = -1 /\ _rid = -1
    /\ shared = <<>>
    /\ built = <<>>
    /\ lanelets_created = 0

\* Up to MaxWays residential ways of 2..MaxRefs resolvable references each,
\* oneway or two-way, with at most MaxTotalRefs references in all.
Init ==
    /\ bounds = TRUE
    /\ \E n \in 0..MaxWays : \E total \in 0..MaxTotalRefs :
         \E flat \in {f \in [1..total -> 1..NumNodes] : Canonical(f)} :
           \E c \in Cuts(total, n) : \E ow \in [1..n -> {"yes", "no"}] :
             ways = [k \in 1..n |->
                       RawWay(k, SubSeq(flat, c[k] + 1, c[k + 1]),
                              ResidentialTags(ow[k]))]
    /\ InitRest

Spec == Init /\ [][Next]_vars

(* ---------------- inputs with ways that are not converted -------------- *)
SkipTotalRefs == 5   \* nd references of the whole input

\* Reference 0 is the id of no indexed node.  Up to MaxWays ways of
\* 1..MaxRefs references each, tagged highway=residential (two-way) or
\* highway=building, with at most SkipTotalRefs references in all.
InitSkip ==
    /\ bounds = TRUE
    /\ \E n \in 1..MaxWays : \E total \in 1..SkipTotalRefs :
         \E flat \in {f \in [1..total -> 0..NumNodes] :
                         Canonical(SelectSeq(f, LAMBDA r : r # 0))} :
           \E c \in CutsFrom(total, n, 1) :
             \E hw \in [1..n -> {"residential", "building"}] :
               ways = [k \in 1..n |->
                         RawWay(k, SubSeq(flat, c[k] + 1, c[k + 1]),
                                "highway" :> hw[k])]
    /\ InitRest

SpecSkip == InitSkip /\ [][Next]_vars

(* ----------------------- inputs that vary the tags --------------------- *)
\* A tag that may be absent: opt is the empty set or the set of its value
TagOpt(key, opt) == [k \in {key : v \in opt} |-> CHOOSE v \in opt : TRUE]

Optional(values) == {{}} \cup {{v} : v \in values}

MaxspeedValues ==
    {<<51, 48>>,                             \* '30'
     <<51, 48, 32, 109, 112, 104>>,          \* '30 mph'
     <<53, 48, 32, 107, 109, 47, 104>>,      \* '50 km/h'
     <<52, 48, 109, 112, 104>>,              \* '40mph'
     <<102, 97, 115, 116>>,                  \* 'fast'
     <<109, 112, 104>>,                      \* 'mph'
     <<53, 32, 48>>,                         \* '5 0'
     <<178>>,                                \* U+00B2 (superscript two)
     <<51, 178, 32, 109, 112, 104>>,         \* '3', U+00B2, ' mph'
     <<1635, 1632>>,                         \* Arabic-Indic three, zero
     <<>>}                                   \* ''

\* One way [1, 2, 3] or two ways [1, 2] and [3, 2]; the tags of the first
\* way vary over categories with and without a default speed, vehicle and
\* pedestrian, and over oneway, maxspeed and name values.
InitTags ==
    /\ bounds \in BOOLEAN
    /\ \E hw \in {"residential", "motorway", "primary_link", "footway", "steps"} :
       \E ow \in Optional({"yes", "no", "1", "true", "-1"}) :
       \E ms \in Optional(MaxspeedValues) :
       \E nm \in Optional({"", "Main St"}) :
       \E two \in BOOLEAN :
         LET tags == ("highway" :> hw) @@ TagOpt("oneway", ow)
                     @@ TagOpt("maxspeed", ms) @@ TagOpt("name", nm)
         IN  ways = IF two
                    THEN <<RawWay(1, <<1, 2>>, tags),
                           RawWay(2, <<3, 2>>, ResidentialTags("yes"))>>
                    ELSE <<RawWay(1, <<1, 2, 3>>, tags)>>
    /\ InitRest

SpecTags == InitTags /\ [][Next]_vars

(* ------------------------- reading the output -------------------------- *)
Range(s) == {s[k] : k \in DOMAIN s}

Elems(doc, kind) == SelectSeq(doc, LAMBDA e : e.kind = kind)

\* The output way with the given id
WayOf(wid) == CHOOSE e \in Range(Elems(out, "way")) : e.id = wid

\* Ids of the nodes of the shared junction triples
TripleIds ==
    UNION {{shared[r].left, shared[r].centre, shared[r].right} : r \in DOMAIN shared}

\* The part of the output appended while converting way w
Part(w) == SubSeq(out, built[w].first, built[w].last)

Built == 1..Len(built)

Ends(w) == {1, Len(highway_ways[w].refs)}

SidesOf(w) ==
    IF highway_ways[w].oneway THEN {"left", "right"} ELSE {"left", "centre", "right"}

\* The node ids that the boundary way(s) of way w for a side hold at the
\* place of source position p (reversed ways hold it at n + 1 - p)
HeldAt(w, side, p) ==
    LET n   == Len(highway_ways[w].refs)
        ids == built[w].way_ids
    IN  IF highway_ways[w].oneway
        THEN {WayOf(ids[IF side = "left" THEN 1 ELSE 2]).nd[p]}
        ELSE CASE side = "left"   -> {WayOf(ids[1]).nd[p]}
               [] side = "centre" -> {WayOf(ids[2]).nd[p], WayOf(ids[3]).nd[n + 1 - p]}
               [] OTHER           -> {WayOf(ids[4]).nd[n + 1 - p]}

(* ------------------------------ C1 ------------------------------------- *)
\* C1: junction sharing.  Two different converted ways that both have source
\* node C as first or last reference hold the same output node at C's place
\* in their boundary ways, for every side both of them resolve.
C1_JunctionSharing ==
    \A w1 \in Built : \A w2 \in Built \ {w1} :
        \A p1 \in Ends(w1) : \A p2 \in Ends(w2) :
            highway_ways[w1].refs[p1] = highway_ways[w2].refs[p2] =>
                \A side \in SidesOf(w1) \cap SidesOf(w2) :
                    Cardinality(HeldAt(w1, side, p1) \cup HeldAt(w2, side, p2)) = 1

\* Two two-way ways are converted, the first ending where the second starts.
C1_Witness ==
    /\ pc = "done"
    /\ \E w1 \in Built : \E w2 \in Built \ {w1} :
         /\ ~highway_ways[w1].oneway /\ ~highway_ways[w2].oneway
         /\ highway_ways[w1].refs[Len(highway_ways[w1].refs)] = highway_ways[w2].refs[1]
         /\ highway_ways[w1].refs[1] # highway_ways[w2].refs[1]

(* ------------------------------ C2 ------------------------------------- *)
TwoWayMembers(rel) ==
    /\ Len(rel.members) = 2
    /\ rel.members[1][1] = "way" /\ rel.members[1][3] = "left"
    /\ rel.members[2][1] = "way" /\ rel.members[2][3] = "right"
    /\ \A m \in 1..2 : \E e \in Range(Elems(out, "way")) : e.id = rel.members[m][2]

\* C2: lanelet cardinality.  A oneway way yields exactly one relation with
\* exactly two member ways (left, right); a two-way way yields exactly two
\* such relations, and the left member way of the second is the node-for-node
\* reverse of the right member way (the centre way) of the first.
C2_LaneletCardinality ==
    \A w \in Built :
        LET rels == Elems(Part(w), "relation")
        IN  IF highway_ways[w].oneway
            THEN Len(rels) = 1 /\ TwoWayMembers(rels[1])
            ELSE /\ Len(rels) = 2
                 /\ TwoWayMembers(rels[1]) /\ TwoWayMembers(rels[2])
                 /\ WayOf(rels[1].members[2][2]).nd = built[w].centre_ids
                 /\ WayOf(rels[2].members[1][2]).nd
                      = Reverse(WayOf(rels[1].members[2][2]).nd)

\* A oneway way and a two-way way of three distinct nodes are converted.
C2_Witness ==
    /\ pc = "done"
    /\ \E w \in Built : highway_ways[w].oneway
    /\ \E w \in Built :
         /\ ~highway_ways[w].oneway
         /\ Len(built[w].centre_ids) = 3
         /\ built[w].centre_ids[1] # built[w].centre_ids[3]

(* ------------------------------ C3 ------------------------------------- *)
\* Source nodes referenced by the way elements other than the one with id wid
TouchedByOthers(wid) ==
    UNION {Range(ways[k].nd) : k \in {j \in 1..Len(ways) : ways[j].id # wid}}

\* Scenario A: one converted way [A, B], two-way, residential, A # B, and no
\* other way element touches A or B.
ScenarioA ==
    /\ pc = "done"
    /\ Len(highway_ways) = 1
    /\ highway_ways[1].highway = "residential"
    /\ ~highway_ways[1].oneway
    /\ Len(highway_ways[1].refs) = 2
    /\ highway_ways[1].refs[1] # highway_ways[1].refs[2]
    /\ Range(highway_ways[1].refs) \cap TouchedByOthers(highway_ways[1].id) = {}

\* What Scenario A yields apart from the number of ways: no junction, six
\* nodes (left, centre, right of A and of B), two relations whose centre
\* boundaries hold the same node ids in opposite order.
ScenarioA_Rest ==
    LET ns   == Elems(out, "node")
        ws   == Elems(out, "way")
        rels == Elems(out, "relation")
        a    == highway_ways[1].refs[1]
        b    == highway_ways[1].refs[2]
    IN  /\ DOMAIN shared = {}
        /\ Len(ns) = 6
        /\ {<<ns[k].at.ref, ns[k].at.sign>> : k \in 1..6}
             = {a, b} \X {1, 0, -1}
        /\ Cardinality({ns[k].id : k \in 1..6}) = 6
        /\ Len(rels) = 2
        /\ TwoWayMembers(rels[1]) /\ TwoWayMembers(rels[2])
        /\ Len(WayOf(rels[1].members[2][2]).nd) = 2
        /\ WayOf(rels[2].members[1][2]).nd = Reverse(WayOf(rels[1].members[2][2]).nd)
        /\ WayOf(rels[1].members[2][2]).nd[1] # WayOf(rels[1].members[2][2]).nd[2]

\* C3 as claimed: Scenario A yields exactly 3 new ways.
C3_ScenarioA_ThreeWays ==
    ScenarioA => (ScenarioA_Rest /\ Len(Elems(out, "way")) = 3)

\* C3 as amended: Scenario A yields exactly 4 new ways (left, centre,
\* reversed centre, reversed right), the reversed ones being new ways of old
\* node ids.
C3_ScenarioA_FourWays ==
    ScenarioA =>
        LET ws == Elems(out, "way")
        IN  /\ ScenarioA_Rest
            /\ Len(ws) = 4
            /\ ws[1].nd = built[1].left_ids
            /\ ws[2].nd = built[1].centre_ids
            /\ ws[3].nd = Reverse(built[1].centre_ids)
            /\ ws[4].nd = Reverse(built[1].right_ids)
            /\ Cardinality({ws[k].id : k \in 1..4}) = 4

\* Scenario A has run to its end and left four ways.
C3_Witness == ScenarioA /\ Len(Elems(out, "way")) = 4

(* ------------------------------ C4 ------------------------------------- *)
\* Scenario B: exactly two converted ways, both oneway, residential, of two
\* nodes, both ending at C, with different first nodes other than C.
ScenarioB ==
    /\ pc = "done"
    /\ Len(highway_ways) = 2
    /\ \A w \in 1..2 :
         /\ highway_ways[w].highway = "residential"
         /\ highway_ways[w].oneway
         /\ Len(highway_ways[w].refs) = 2
    /\ highway_ways[1].refs[2] = highway_ways[2].refs[2]
    /\ Cardinality({highway_ways[1].refs[1], highway_ways[2].refs[1],
                     highway_ways[1].refs[2]}) = 3

\* C4: in Scenario B one triple of three nodes is made for C and used by the
\* left and right boundary ways of both ways at C; each way creates exactly
\* two fresh nodes, at its other endpoint; there are 7 nodes and 2
\* relations, one per way.
C4_ScenarioB ==
    ScenarioB =>
        LET c  == highway_ways[1].refs[2]
            ns == Elems(out, "node")
        IN  /\ DOMAIN shared = {c}
            /\ Cardinality(TripleIds) = 3
            /\ {ns[k].id : k \in {j \in 1..Len(ns) : ns[j].at.ref = c}} = TripleIds
            /\ \A w \in 1..2 :
                 /\ HeldAt(w, "left", 2) = {shared[c].left}
                 /\ HeldAt(w, "right", 2) = {shared[c].right}
                 /\ LET fresh == Elems(Part(w), "node")
                    IN  /\ Len(fresh) = 2
                        /\ \A k \in 1..2 : fresh[k].at.ref = highway_ways[w].refs[1]
                        /\ {fresh[1].id, fresh[2].id}
                             = HeldAt(w, "left", 1) \cup HeldAt(w, "right", 1)
                        /\ fresh[1].id # fresh[2].id
                 /\ Len(Elems(Part(w), "relation")) = 1
            /\ Len(ns) = 7
            /\ Len(Elems(out, "relation")) = 2

\* Scenario B has run to its end and left a triple for C.
C4_Witness == ScenarioB /\ DOMAIN shared # {}

(* ------------------------------ C5 ------------------------------------- *)
\* The way element is not converted: its category has no half-width, or
\* fewer than two of its references are ids of indexed nodes.
Skipped(way) ==
    \/ "highway" \notin DOMAIN way.tags
    \/ way.tags["highway"] \notin DOMAIN HALF_WIDTHS
    \/ Cardinality({k \in 1..Len(way.nd) : way.nd[k] \in osm_nodes}) < 2

Without(ws, k) == [j \in 1..(Len(ws) - 1) |-> IF j < k THEN ws[j] ELSE ws[j + 1]]

\* C5: skip policy.  A way that is not converted leaves no trace: the output
\* document and the junction registry are those of the input without it.
C5_SkipPolicy ==
    pc = "done" =>
        \A k \in 1..Len(ways) :
            Skipped(ways[k]) =>
                LET r == convert(osm_nodes, Without(ways, k), bounds)
                IN  r.out = out /\ r.shared = shared

\* A way skipped for its category and a way skipped for its references
\* both touch an endpoint of a converted way.
C5_Witness ==
    /\ pc = "done"
    /\ Len(highway_ways) >= 1
    /\ \E k \in 1..Len(ways) :
         /\ ways[k].tags["highway"] = "building"
         /\ Len(ways[k].nd) >= 2
         /\ \E w \in 1..Len(highway_ways) : \E p \in Ends(w) :
              highway_ways[w].refs[p] \in {ways[k].nd[1], ways[k].nd[Len(ways[k].nd)]}
    /\ \E k \in 1..Len(ways) :
         /\ ways[k].tags["highway"] = "residential"
         /\ Skipped(ways[k])
         /\ \E w \in 1..Len(highway_ways) : \E p \in Ends(w) :
              highway_ways[w].refs[p] \in Range(ways[k].nd)

(* ------------------------------ C6 ------------------------------------- *)
Counter(kind) ==
    CASE kind = "node" -> _nid [] kind = "way" -> _wid [] OTHER -> _rid

\* C6: output ids.  The k-th created entity of each kind has id -k (so ids
\* are negative, distinct within the kind and strictly decreasing), and the
\* counter of a kind stands at -1 minus the number of entities of that kind.
C6_OutputIds ==
    \A kind \in {"node", "way", "relation"} :
        LET es == Elems(out, kind)
        IN  /\ \A k \in 1..Len(es) : es[k].id = -k
            /\ Counter(kind) = -1 - Len(es)

\* Entities of all three kinds were created, several of each.
C6_Witness ==
    /\ pc = "done"
    /\ DOMAIN shared # {}
    /\ Len(Elems(out, "node")) > 3
    /\ Len(Elems(out, "way")) > 4
    /\ Len(Elems(out, "relation")) > 2

(* ------------------------------ C7 ------------------------------------- *)
\* Converted ways that have source node r as first or last reference
EndingAt(r) ==
    {w \in 1..Len(highway_ways) :
        \E p \in {1, Len(highway_ways[w].refs)} : highway_ways[w].refs[p] = r}

\* C7: junction definition.  A source node gets a shared triple exactly if
\* it is the first or last reference of two or more distinct converted ways,
\* and then exactly three output nodes are made for it before Phase 5.
C7_JunctionDefinition ==
    pc = "done" =>
        \A r \in osm_nodes :
            /\ r \in DOMAIN shared <=> Cardinality(EndingAt(r)) >= 2
            /\ r \in DOMAIN shared =>
                 Cardinality({shared[r].left, shared[r].centre, shared[r].right}) = 3

(* ------------------------------ C8 ------------------------------------- *)
EndsWith(s, suffix) ==
    /\ Len(s) >= Len(suffix)
    /\ SubSeq(s, Len(s) - Len(suffix) + 1, Len(s)) = suffix

RECURSIVE TrimRight(_)
TrimRight(s) ==
    IF Len(s) > 0 /\ s[Len(s)] = 32 THEN TrimRight(SubSeq(s, 1, Len(s) - 1)) ELSE s

\* The speed value without a trailing unit (mph, km/h) and blanks
WithoutUnit(s) ==
    LET t == TrimRight(s)
    IN  IF EndsWith(t, <<107, 109, 47, 104>>) THEN TrimRight(SubSeq(t, 1, Len(t) - 4))
        ELSE IF EndsWith(t, <<109, 112, 104>>) THEN TrimRight(SubSeq(t, 1, Len(t) - 3))
        ELSE t

Numeric(s) == Len(s) > 0 /\ \A k \in 1..Len(s) : s[k] \in Digits

CategoryDefault(hw) == IF hw \in DOMAIN DEFAULT_SPEED THEN DEFAULT_SPEED[hw] ELSE <<53, 48>>

SourceWay(w) == CHOOSE way \in Range(ways) : way.id = highway_ways[w].id

\* C8: speed limit.  The speed_limit tag of every relation is numeric, and
\* it is the default of the category when the way has no maxspeed or one
\* that is not numeric once its unit is stripped.
C8_SpeedLimit ==
    \A w \in Built : \A rel \in Range(Elems(Part(w), "relation")) :
        LET tags == SourceWay(w).tags
        IN  /\ Numeric(rel.tags["speed_limit"])
            /\ ("maxspeed" \notin DOMAIN tags \/ ~Numeric(WithoutUnit(tags["maxspeed"])))
                   => rel.tags["speed_limit"] = CategoryDefault(highway_ways[w].highway)

(* ------------------------------ C9 ------------------------------------- *)
FreshIds == {e.id : e \in Range(Elems(out, "node"))} \ TripleIds

\* C9: phase ordering.  Junction contributions are recorded only when every
\* converted way has its perpendiculars; a way is built only when every
\* junction has its triple; the registry is not written once a way is built;
\* hence every triple node id is greater than every fresh boundary node id.
C9_PhaseOrdering ==
    /\ [][endpoint_info' # endpoint_info =>
            \A w \in 1..Len(highway_ways) : "perps" \in DOMAIN highway_ways[w]]_vars
    /\ [][built' # built =>
            \A k \in 1..Len(endpoint_info) :
                Len(endpoint_info[k].infos) >= 2 =>
                    endpoint_info[k].ref \in DOMAIN shared]_vars
    /\ [][built # <<>> => shared' = shared]_vars
    /\ [](\A t \in TripleIds : \A f \in FreshIds : t > f)

\* Triples and fresh boundary nodes both exist.
C9_Witness ==
    /\ pc = "done"
    /\ Cardinality(DOMAIN shared) >= 2
    /\ FreshIds # {}

(* ------------------------------ C10 ------------------------------------ *)
SideIds(w, side) ==
    CASE side = "left" -> built[w].left_ids
      [] side = "centre" -> built[w].centre_ids
      [] OTHER -> built[w].right_ids

\* C10: interior nodes are fresh.  The node resolved for a side at an
\* interior position of a way is created while that way is converted, is in
\* no shared triple, and is held by no boundary way at any other side or
\* position, of the same way or of another one.
C10_InteriorFresh ==
    \A w \in Built : \A side \in SidesOf(w) :
        \A p \in 2..(Len(highway_ways[w].refs) - 1) :
            LET id == SideIds(w, side)[p]
            IN  /\ \E e \in Range(Elems(Part(w), "node")) : e.id = id
                /\ id \notin TripleIds
                /\ HeldAt(w, side, p) = {id}
                /\ \A w2 \in Built : \A side2 \in SidesOf(w2) :
                     \A p2 \in 1..Len(highway_ways[w2].refs) :
                        <<w2, side2, p2>> # <<w, side, p>> =>
                            id \notin HeldAt(w2, side2, p2)

\* An interior node of one way is a junction at which another way ends, and
\* some way passes twice through one of its interior nodes.
C10_Witness ==
    /\ pc = "done"
    /\ \E w \in Built : \E p \in 2..(Len(highway_ways[w].refs) - 1) :
         /\ highway_ways[w].refs[p] \in DOMAIN shared
         /\ EndingAt(highway_ways[w].refs[p]) \ {w} # {}
    /\ \E w \in Built : \E p \in 2..(Len(highway_ways[w].refs) - 1) :
         \E q \in 1..Len(highway_ways[w].refs) :
            q # p /\ highway_ways[w].refs[q] = highway_ways[w].refs[p]
====
